---- MODULE Spec2Model ----
(***************************************************************************)
(* Per-subscriber push notification scheduler of durable-object-starter.   *)
(*                                                                         *)
(* One Durable Object (MyDurableObject) per partition name.  The Worker's  *)
(* fetch handler hashes the subscription endpoint to the partition name    *)
(* and calls registerNotification on it; the runtime calls alarm() when    *)
(* the stored wake-up time has matured.                                    *)
(*                                                                         *)
(* The repository holds two sources of the class:                          *)
(*   "sql"     src/src/index.ts:132-366    raw SQL, table `subscription`   *)
(*   "drizzle" src/unnamed/part_001:99-253 drizzle ORM (src/unnamed/       *)
(*             part_004), table `subscription_records`                     *)
(* The variable `build` says which one is deployed.                        *)
(*                                                                         *)
(* Runtime rules the model takes from the Durable Objects platform:        *)
(*   - one object per name, one JavaScript thread per object;              *)
(*   - while a handler awaits a storage operation no other event is        *)
(*     delivered to the object (input gate), so registerNotification,      *)
(*     whose only awaits are getAlarm/setAlarm, runs as one step;          *)
(*   - while a handler awaits other I/O (sendNotification) other events    *)
(*     ARE delivered to the object;                                        *)
(*   - while alarm() runs getAlarm() answers null; the alarm that fired    *)
(*     is dropped when alarm() returns and kept (for a retry) when it      *)
(*     throws; alarm() is never run twice at the same time;                *)
(*   - storage.deleteAll() removes the whole SQLite database, tables       *)
(*     included, but not the alarm.                                        *)
(* Time is counted in seconds.                                             *)
(*                                                                         *)
(* Specifications:                                                         *)
(*   Spec        fresh storage;                                            *)
(*   SpecStored  an object starts from storage of an earlier deployment;   *)
(*   SpecLegacy  an object starts from a record table of an earlier        *)
(*               layout, which ensureSchema() migrates;                    *)
(*   SpecGate    registerNotification await by await, with the input gate. *)
(***************************************************************************)
EXTENDS Integers, FiniteSets, Sequences, TLC

\* ------------------------------------------------------------- bounds
\* The clock runs from 0 to MaxNow seconds, in steps of Step seconds.
MaxNow == 20
Step == 5

\* The fine-grained specification takes up to MaxCalls register calls.
MaxCalls == 2

\* ---------------------------------------------------------- constants
\* registerNotification: new Date(Date.now() + 10 * 1000), in seconds.
Delay == 10

\* ------------------------------------------------------------- inputs
Builds == {"sql", "drizzle"}

\* Names of the Durable Objects (hex digests, abbreviated).
Keys == {"k1", "k2"}

EndpointA == "https://push.example/a"
EndpointB == "https://push.example/b"
EndpointC == "https://fcm.googleapis.com/c"
EndpointBad == "not a url"

Endpoints == {EndpointA, EndpointB, EndpointC, EndpointBad}

\* createHash('md5').update(endpoint).digest('hex'): a 128-bit digest of
\* a string of any length, so it is many-to-one; the table keeps one pair
\* of endpoints with the same digest.
Md5(endpoint) ==
    CASE endpoint = EndpointA -> "k1"
      [] endpoint = EndpointB -> "k1"
      [] endpoint = EndpointC -> "k2"
      [] OTHER -> "k2"

\* new URL(endpoint) throws a TypeError on a string that is no URL.
IsUrl(endpoint) == endpoint \notin {EndpointBad, ""}

\* The PushSubscription bodies a client posts to /subscribe.
PushSub(e, p, a) == [endpoint |-> e, keys |-> [p256dh |-> p, auth |-> a]]

Subs ==
    { PushSub(EndpointA, "p1", "a1"),
      PushSub(EndpointA, "p2", "a2"),
      PushSub(EndpointB, "p1", "a2"),
      PushSub(EndpointC, "p1", "a1"),
      PushSub(EndpointBad, "p1", "a1") }

\* The row registerNotification stores for a PushSubscription.
Rec(s) ==
    [endpoint |-> s.endpoint, keys_p256dh |-> s.keys.p256dh, keys_auth |-> s.keys.auth]

Records == { Rec(s) : s \in Subs }

\* The environment bindings alarm() checks: TRUE when the secret is set.
Envs ==
    { [VAPID_PRIVATE_KEY |-> TRUE, GCM_APIKey |-> TRUE],
      [VAPID_PRIVATE_KEY |-> FALSE, GCM_APIKey |-> TRUE],
      [VAPID_PRIVATE_KEY |-> TRUE, GCM_APIKey |-> FALSE] }

\* ensureSchema: const expected = ["endpoint", "keys_p256dh", "keys_auth"].
Expected == {"endpoint", "keys_p256dh", "keys_auth"}

\* What PRAGMA table_info('subscription') tells ensureSchema about the
\* record table, and whether the shadow table subscription_new exists:
\*   cols    the names of the table's columns ({} when there is no table);
\*   pk      the pk index of the column endpoint is > 0;
\*   shadow  a table subscription_new exists.
NoTable == [cols |-> {}, pk |-> FALSE, shadow |-> FALSE]

\* CREATE TABLE subscription(endpoint TEXT PRIMARY KEY, keys_p256dh TEXT
\* NOT NULL, keys_auth TEXT NOT NULL).
ExpectedTable == [cols |-> Expected, pk |-> TRUE, shadow |-> FALSE]

\* The field of a row for a column its table does not have.
NoColumn == "<no column>"

\* The order of the text values under SQLite's BINARY collation, which
\* MAX() uses.
TextOrder == << "", "a1", "a2", "p1", "p2" >>

\* -------------------------------------------------------------- state
VARIABLES
    build,          \* which source of MyDurableObject is deployed
    env,            \* the Worker's bindings (read-only after start)
    now,            \* Date.now(), seconds
    initialized,    \* [key -> BOOLEAN]: object in memory, constructor has run
    tableExists,    \* [key -> BOOLEAN]: the record table exists in the database
    rows,           \* [key -> set of rows of the record table]
    alarmAt,        \* [key -> <<>> | <<t>>]: what storage.getAlarm() answers
    pc,             \* [key -> "idle" | "send" | "debug"]: where alarm() is suspended
    subscription,   \* [key -> <<>> | <<row>>]: alarm()'s local `subscription`
    sends,          \* [key -> number of sendNotification calls of the running alarm()]
    atFire,         \* [key -> rows of the table when the running alarm() started]
    last,           \* the handler step that ran last (history)
    schema,         \* [key -> layout of the record table, see NoTable]
    ctor,           \* the constructor run of the step that ran last (history)
    latest,         \* [key -> <<>> | <<row>>]: the row the last register stored (history)
    calls,          \* [key -> register calls of the fine-grained specification]
    tally           \* [key -> counts of setAlarm() and alarm() calls] (history)

vars ==
    << build, env, now, initialized, tableExists, rows, alarmAt, pc,
       subscription, sends, atFire, last, schema, ctor, latest, calls, tally >>

\* `last` describes the handler step that ran at the present instant; it is
\* forgotten when the clock moves.
NoEvent ==
    [op |-> "none", key |-> "", arg |-> <<>>, outcome |-> "", error |-> "",
     rowsBefore |-> {}, alarmBefore |-> <<>>, sends |-> 0, accepted |-> FALSE]

\* No constructor ran in the step that ran last.
NoRun ==
    [key |-> "", outcome |-> "none", error |-> "", writes |-> 0,
     schemaBefore |-> NoTable, rowsBefore |-> {}]

\* The counts are kept by the specification that starts them (on); the
\* other specifications leave them alone.
\*   armed  the times registerNotification called setAlarm();
\*   fired  the times the runtime called alarm().
Tally(on) == [k \in Keys |-> [on |-> on, armed |-> 0, fired |-> 0]]

Count(t, k, field) == IF t[k].on THEN [t EXCEPT ![k][field] = @ + 1] ELSE t

\* Fresh storage: no object was ever created.
Init ==
    /\ build \in Builds
    /\ env \in Envs
    /\ now = 0
    /\ initialized = [k \in Keys |-> FALSE]
    /\ tableExists = [k \in Keys |-> FALSE]
    /\ rows = [k \in Keys |-> {}]
    /\ alarmAt = [k \in Keys |-> <<>>]
    /\ pc = [k \in Keys |-> "idle"]
    /\ subscription = [k \in Keys |-> <<>>]
    /\ sends = [k \in Keys |-> 0]
    /\ atFire = [k \in Keys |-> {}]
    /\ last = NoEvent
    /\ schema = [k \in Keys |-> NoTable]
    /\ ctor = NoRun
    /\ latest = [k \in Keys |-> <<>>]
    /\ calls = [k \in Keys |-> <<>>]
    /\ tally = Tally(FALSE)

\* ---------------------------------------------------- storage helpers
\* Whether the row set has a row with this primary key (endpoint).
HasEndpoint(rs, e) == \E x \in rs : x.endpoint = e

\* INSERT INTO subscription ...: endpoint is TEXT PRIMARY KEY, so a second
\* row with the same endpoint is a constraint error.
SqlInsert(rs, r) ==
    IF HasEndpoint(rs, r.endpoint)
    THEN [ok |-> FALSE, rows |-> rs]
    ELSE [ok |-> TRUE, rows |-> rs \cup {r}]

\* DELETE FROM subscription;
SqlDeleteAll(rs) == {}

\* transactionSync(() => { DELETE FROM subscription; INSERT ... }): both
\* statements or, when one throws, neither.
ReplaceTx(rs, s) ==
    LET ins == SqlInsert(SqlDeleteAll(rs), Rec(s))
    IN  IF ins.ok THEN ins ELSE [ok |-> FALSE, rows |-> rs]

\* db.insert(SubscriptionRecords).values(r).onConflictDoUpdate({target:
\* endpoint, set: r}): the row with r's endpoint is replaced, others stay.
create(rs, s) ==
    [ok |-> TRUE, rows |-> { x \in rs : x.endpoint # s.endpoint } \cup {Rec(s)}]

\* The record write of registerNotification in the deployed build.
StoreRecord(rs, s) == IF build = "sql" THEN ReplaceTx(rs, s) ELSE create(rs, s)

\* Mutant of ArmAlarm: every register sets the wake-up time anew.
ArmAlarm_Always(currentAlarm, t) == << t + Delay >>

\* Mutant of ArmAlarm: currentAlarm < Date.now() in place of <=.
ArmAlarm_Strict(currentAlarm, t) ==
    IF currentAlarm = <<>> \/ currentAlarm[1] < t
    THEN << t + Delay >>
    ELSE currentAlarm

\* Mutant of ArmAlarm: currentAlarm != null && currentAlarm <= Date.now().
ArmAlarm_NullKept(currentAlarm, t) ==
    IF currentAlarm # <<>> /\ currentAlarm[1] <= t
    THEN << t + Delay >>
    ELSE currentAlarm

\* Mutant of ArmAlarm: the delay is added twice.
ArmAlarm_Late(currentAlarm, t) ==
    IF currentAlarm = <<>> \/ currentAlarm[1] <= t
    THEN << t + Delay + Delay >>
    ELSE currentAlarm

\* registerNotification's alarm rule: currentAlarm == null ||
\* currentAlarm <= Date.now() sets Date.now() + 10 s, else it is kept.
ArmAlarm(currentAlarm, t) ==
    IF currentAlarm = <<>> \/ currentAlarm[1] <= t
    THEN << t + Delay >>
    ELSE currentAlarm

\* Mutant of NeedsMigration: needsMigration starts as true.
NeedsMigration_Always(sch) == TRUE

\* Mutant of NeedsMigration: the primary key of endpoint is not looked at.
NeedsMigration_ColsOnly(sch) == \E col \in Expected : col \notin sch.cols

\* ensureSchema: "If expected columns are not all present, or endpoint
\* isn't primary key, migrate".
NeedsMigration(sch) == (\E col \in Expected : col \notin sch.cols) \/ ~sch.pk

\* MAX(column) of a group of rows.
Pos(x) == CHOOSE i \in 1..Len(TextOrder) : TextOrder[i] = x

MaxText(S) == CHOOSE x \in S : \A y \in S : Pos(y) <= Pos(x)

\* SELECT endpoint, MAX(keys_p256dh), MAX(keys_auth) FROM subscription
\* GROUP BY endpoint.
GroupByEndpoint(rs) ==
    { [endpoint |-> e,
       keys_p256dh |-> MaxText({ x.keys_p256dh : x \in { y \in rs : y.endpoint = e } }),
       keys_auth |-> MaxText({ x.keys_auth : x \in { y \in rs : y.endpoint = e } })] :
      e \in { x.endpoint : x \in rs } }

\* SELECT ${selectParts.join(', ')} FROM subscription, when the table has
\* no column endpoint: '' for endpoint and for every other missing column.
SelectParts(cols, rs) ==
    { [endpoint |-> "",
       keys_p256dh |-> IF "keys_p256dh" \in cols THEN x.keys_p256dh ELSE "",
       keys_auth |-> IF "keys_auth" \in cols THEN x.keys_auth ELSE ""] : x \in rs }

\* The INSERT INTO subscription_new ... SELECT of the migration.
\*   - The table has endpoint: the statement names keys_p256dh and keys_auth
\*     whether or not the table has them; SQLite refuses a statement that
\*     names a column the table does not have.
\*   - The table has no endpoint: every copied row gets the endpoint '', and
\*     the primary key of subscription_new refuses the second one.
InsertSelect(sch, rs) ==
    IF "endpoint" \in sch.cols
    THEN IF {"keys_p256dh", "keys_auth"} \subseteq sch.cols
         THEN [ok |-> TRUE, rows |-> GroupByEndpoint(rs), error |-> ""]
         ELSE [ok |-> FALSE, rows |-> {}, error |-> "no such column"]
    ELSE IF Cardinality(rs) >= 2
         THEN [ok |-> FALSE, rows |-> {}, error |-> "UNIQUE constraint failed"]
         ELSE [ok |-> TRUE, rows |-> SelectParts(sch.cols, rs), error |-> ""]

\* Mutant of MigrationTx: the four statements run outside a transaction,
\* so a failing INSERT leaves the shadow table behind.
MigrationTx_NoRollback(sch, rs) ==
    LET ins == InsertSelect(sch, rs)
    IN  IF ins.ok
        THEN [ok |-> TRUE, schema |-> ExpectedTable, rows |-> ins.rows,
              error |-> "", writes |-> 4]
        ELSE [ok |-> FALSE, schema |-> [sch EXCEPT !.shadow = TRUE], rows |-> rs,
              error |-> ins.error, writes |-> 1]

\* ensureSchema: ctx.storage.transactionSync(() => { CREATE TABLE IF NOT
\* EXISTS subscription_new; INSERT ... SELECT; DROP TABLE subscription;
\* ALTER TABLE subscription_new RENAME TO subscription }): all four
\* statements or, when one throws, none (writes counts the statements that
\* were issued).
MigrationTx(sch, rs) ==
    LET ins == InsertSelect(sch, rs)
    IN  IF ins.ok
        THEN [ok |-> TRUE, schema |-> ExpectedTable, rows |-> ins.rows,
              error |-> "", writes |-> 4]
        ELSE [ok |-> FALSE, schema |-> sch, rows |-> rs,
              error |-> ins.error, writes |-> 1]

\* ensureSchema() of an object whose flag `initialized` is init, on the
\* record table sch with the rows rs.  outcome:
\*   "memo"      if (this.initialized) return;
\*   "created"   no table: CREATE TABLE IF NOT EXISTS subscription;
\*   "ok"        expected columns, endpoint primary key: nothing to do;
\*   "migrated"  the migration transaction committed;
\*   "threw"     the migration transaction threw and was rolled back.
ensureSchema(init, sch, rs) ==
    IF init
    THEN [initialized |-> TRUE, schema |-> sch, rows |-> rs,
          outcome |-> "memo", error |-> "", writes |-> 0]
    ELSE IF sch.cols = {}
    THEN [initialized |-> TRUE, schema |-> [ExpectedTable EXCEPT !.shadow = sch.shadow],
          rows |-> {}, outcome |-> "created", error |-> "", writes |-> 1]
    ELSE IF ~NeedsMigration(sch)
    THEN [initialized |-> TRUE, schema |-> sch, rows |-> rs,
          outcome |-> "ok", error |-> "", writes |-> 0]
    ELSE LET tx == MigrationTx(sch, rs)
         IN  [initialized |-> tx.ok, schema |-> tx.schema, rows |-> tx.rows,
              outcome |-> IF tx.ok THEN "migrated" ELSE "threw",
              error |-> tx.error, writes |-> tx.writes]

\* migrate(db, migrations): creates subscription_records when missing.
migrate(exists) == IF ~exists THEN TRUE ELSE exists

\* The constructor of the deployed build on the storage of the object
\* named k: ensureSchema() (raw SQL) or blockConcurrencyWhile(migrate)
\* (drizzle).
Constructed(k) ==
    IF build = "sql"
    THEN ensureSchema(initialized[k], schema[k], rows[k])
    ELSE [initialized |-> TRUE,
          schema |-> IF migrate(tableExists[k]) THEN ExpectedTable ELSE NoTable,
          rows |-> rows[k],
          outcome |-> IF tableExists[k] THEN "ok" ELSE "created",
          error |-> "", writes |-> IF tableExists[k] THEN 0 ELSE 1]

\* The record of the constructor run c on the object named k.
Ran(k, c) ==
    [key |-> k, outcome |-> c.outcome, error |-> c.error, writes |-> c.writes,
     schemaBefore |-> schema[k], rowsBefore |-> rows[k]]

Event(op, k, arg, outcome, error, rowsBefore, alarmBefore, n, accepted) ==
    [op |-> op, key |-> k, arg |-> arg, outcome |-> outcome, error |-> error,
     rowsBefore |-> rowsBefore, alarmBefore |-> alarmBefore,
     sends |-> n, accepted |-> accepted]

\* ------------------------------------------------------------ actions
\* An event arrives for the object named k, which is not in memory: the
\* runtime creates the object, running its constructor, before it delivers
\* the event.  When the constructor throws the event fails and the object
\* is not kept.
Construct(k) ==
    /\ ~initialized[k]
    /\ LET c == Constructed(k)
       IN  /\ initialized' = [initialized EXCEPT ![k] = c.initialized]
           /\ schema' = [schema EXCEPT ![k] = c.schema]
           /\ tableExists' = [tableExists EXCEPT ![k] = (c.schema.cols # {})]
           /\ rows' = [rows EXCEPT ![k] = c.rows]
           /\ ctor' = Ran(k, c)
    /\ last' = NoEvent
    /\ UNCHANGED << build, env, now, alarmAt, pc, subscription, sends, atFire,
                    latest, calls, tally >>

\* registerNotification(subscription) on the object named k.
registerNotification(k, s) ==
    LET tbl == tableExists[k]
        tx  == StoreRecord(rows[k], s)
    IN  /\ initialized[k]
        /\ IF tbl /\ tx.ok
           THEN /\ rows' = [rows EXCEPT ![k] = tx.rows]
                /\ alarmAt' = [alarmAt EXCEPT ![k] = ArmAlarm(alarmAt[k], now)]
                /\ latest' = [latest EXCEPT ![k] = << Rec(s) >>]
                /\ tally' = IF ArmAlarm(alarmAt[k], now) # alarmAt[k]
                            THEN Count(tally, k, "armed") ELSE tally
                /\ last' = Event("register", k, <<s>>, "returned", "",
                                 rows[k], alarmAt[k], 0, FALSE)
           ELSE /\ UNCHANGED << rows, alarmAt, latest, tally >>
                /\ last' = Event("register", k, <<s>>, "threw",
                                 IF tbl THEN "constraint" ELSE "no such table",
                                 rows[k], alarmAt[k], 0, FALSE)
        /\ ctor' = NoRun
        /\ UNCHANGED << build, env, now, initialized, tableExists, schema, pc,
                        subscription, sends, atFire, calls >>

\* fetch: POST /subscribe routes the body to the object named by the md5
\* of its endpoint.
fetchSubscribe(s) == registerNotification(Md5(s.endpoint), s)

\* fetch: any other path calls sayHello on the object named by ?name=,
\* which answers a greeting.
sayHello(k) ==
    /\ initialized[k]
    /\ last' = Event("sayHello", k, <<>>, "returned", "", rows[k], alarmAt[k], 0, FALSE)
    /\ ctor' = NoRun
    /\ UNCHANGED << build, env, now, initialized, tableExists, schema, rows, alarmAt,
                    pc, subscription, sends, atFire, latest, calls, tally >>

\* alarm(): the read of the stored record.
\*   sql:     sql.exec("SELECT * FROM subscription LIMIT 1;").one() throws
\*            when the result has no row, before `if (!subscription)`.
\*   drizzle: (await list(db))[0], undefined for an empty table, and then
\*            throw new Error("No subscription found in storage.").
\* The answers are the possible outcomes: SQL fixes no order of the rows.
ReadSubscription(tbl, rs) ==
    IF ~tbl THEN { [ok |-> FALSE, row |-> <<>>, error |-> "no such table"] }
    ELSE IF rs = {}
    THEN { [ok |-> FALSE, row |-> <<>>,
            error |-> IF build = "sql" THEN "one(): no rows"
                                       ELSE "No subscription found in storage."] }
    ELSE { [ok |-> TRUE, row |-> <<r>>, error |-> ""] : r \in rs }

\* alarm(): what the try block throws before it calls sendNotification
\* ("" when it reaches the call).
BeforeSend(r) ==
    IF ~env.VAPID_PRIVATE_KEY THEN "Missing VAPID_PRIVATE_KEY"
    ELSE IF ~env.GCM_APIKey THEN "Missing GCM_APIKey"
    ELSE IF ~IsUrl(r.endpoint) THEN "Invalid URL"
    ELSE ""

\* Mutant of AlarmPath: the read of the record moved inside the try block,
\* so that its failure is caught and logged.
AlarmPath_AllCaught(rd) ==
    IF ~rd.ok THEN "caught"
    ELSE IF BeforeSend(rd.row[1]) # "" THEN "caught"
    ELSE "send"

\* Mutant of AlarmPath: the catch block throws the error again.
AlarmPath_Rethrows(rd) ==
    IF ~rd.ok THEN "throw"
    ELSE IF BeforeSend(rd.row[1]) # "" THEN "throw"
    ELSE "send"

\* alarm(): where the handler goes after the read.
\*   "throw":  the read failed, outside the try block: alarm() rejects;
\*   "caught": the try block threw before sendNotification: caught, logged;
\*   "send":   await sendNotification(pushSubscription, ...).
AlarmPath(rd) ==
    IF ~rd.ok THEN "throw"
    ELSE IF BeforeSend(rd.row[1]) # "" THEN "caught"
    ELSE "send"

\* The error alarm() ends with on the paths "throw" and "caught".
AlarmError(rd) == IF ~rd.ok THEN rd.error ELSE BeforeSend(rd.row[1])

\* The runtime runs alarm() on the object named k: the stored wake-up time
\* has matured and no alarm() of the object is running.  While alarm() runs
\* and after it has returned, getAlarm() answers null unless setAlarm() was
\* called meanwhile; when alarm() rejects the runtime keeps the wake-up time
\* and runs alarm() again.
alarm(k) ==
    /\ pc[k] = "idle"
    /\ alarmAt[k] # <<>>
    /\ alarmAt[k][1] <= now
    /\ initialized[k]
    /\ \E rd \in ReadSubscription(tableExists[k], rows[k]) :
        /\ CASE AlarmPath(rd) = "throw" ->
                /\ last' = Event("alarm", k, rd.row, "threw", AlarmError(rd),
                                 rows[k], alarmAt[k], 0, FALSE)
                /\ UNCHANGED << alarmAt, pc, subscription, sends, atFire >>
             [] AlarmPath(rd) = "caught" ->
                /\ alarmAt' = [alarmAt EXCEPT ![k] = <<>>]
                /\ last' = Event("alarm", k, rd.row, "returned", AlarmError(rd),
                                 rows[k], alarmAt[k], 0, FALSE)
                /\ UNCHANGED << pc, subscription, sends, atFire >>
             [] OTHER ->
                /\ alarmAt' = [alarmAt EXCEPT ![k] = <<>>]
                /\ pc' = [pc EXCEPT ![k] = "send"]
                /\ subscription' = [subscription EXCEPT ![k] = rd.row]
                /\ sends' = [sends EXCEPT ![k] = 1]
                /\ atFire' = [atFire EXCEPT ![k] = rows[k]]
                /\ last' = Event("alarmStart", k, rd.row, "", "",
                                 rows[k], alarmAt[k], 1, FALSE)
    /\ ctor' = NoRun
    /\ tally' = Count(tally, k, "fired")
    /\ UNCHANGED << build, env, now, initialized, tableExists, schema, rows,
                    latest, calls >>

\* Mutant of deleteAll: the storage of every object is emptied.
deleteAll_Every(store, k) == [x \in Keys |-> {}]

\* ctx.storage.deleteAll(): empties the storage of the object it is called
\* on.
deleteAll(store, k) == [store EXCEPT ![k] = {}]

\* Mutant of deleteAlarm: the cleanup does not cancel the wake-up time.
deleteAlarm_Skipped(alarms, k) == alarms

\* ctx.storage.deleteAlarm(): cancels the wake-up time of the object it is
\* called on.
deleteAlarm(alarms, k) == [alarms EXCEPT ![k] = <<>>]

\* alarm(): "Success: cleanup": deleteAlarm() and deleteAll().
Cleanup(k) ==
    /\ alarmAt' = deleteAlarm(alarmAt, k)
    /\ rows' = deleteAll(rows, k)
    /\ tableExists' = [tableExists EXCEPT ![k] = FALSE]
    /\ schema' = [schema EXCEPT ![k] = NoTable]
    /\ latest' = [latest EXCEPT ![k] = <<>>]
    /\ ctor' = NoRun
    /\ pc' = [pc EXCEPT ![k] = "idle"]
    /\ subscription' = [subscription EXCEPT ![k] = <<>>]
    /\ sends' = [sends EXCEPT ![k] = 0]
    /\ atFire' = [atFire EXCEPT ![k] = {}]
    /\ last' = Event("alarm", k, subscription[k], "returned", "",
                     atFire[k], alarmAt[k], sends[k], TRUE)

\* alarm(): the catch block logs the error and returns.
Catch(k, accepted) ==
    /\ pc' = [pc EXCEPT ![k] = "idle"]
    /\ subscription' = [subscription EXCEPT ![k] = <<>>]
    /\ sends' = [sends EXCEPT ![k] = 0]
    /\ atFire' = [atFire EXCEPT ![k] = {}]
    /\ last' = Event("alarm", k, subscription[k], "returned", "WebPushError",
                     atFire[k], alarmAt[k], sends[k], accepted)
    /\ ctor' = NoRun
    /\ UNCHANGED << alarmAt, rows, tableExists, schema, latest >>

\* The first sendNotification (to the stored endpoint) settles.
sendSettled(k, accepted) ==
    /\ pc[k] = "send"
    /\ IF ~accepted THEN Catch(k, FALSE)
       ELSE IF build = "sql"
       THEN \* await sendNotification(debugSubscription, ...)
            /\ pc' = [pc EXCEPT ![k] = "debug"]
            /\ sends' = [sends EXCEPT ![k] = 2]
            /\ last' = Event("alarmDebug", k, subscription[k], "", "",
                             atFire[k], alarmAt[k], 2, TRUE)
            /\ ctor' = NoRun
            /\ UNCHANGED << alarmAt, rows, tableExists, subscription, atFire,
                            schema, latest >>
       ELSE Cleanup(k)
    /\ UNCHANGED << build, env, now, initialized, calls, tally >>

\* The second sendNotification (to the debug URL, sql build) settles.
debugSettled(k, accepted) ==
    /\ pc[k] = "debug"
    /\ IF accepted THEN Cleanup(k) ELSE Catch(k, TRUE)
    /\ UNCHANGED << build, env, now, initialized, calls, tally >>

\* The runtime drops an idle object from memory.
Evict(k) ==
    /\ initialized[k]
    /\ pc[k] = "idle"
    /\ initialized' = [initialized EXCEPT ![k] = FALSE]
    /\ last' = NoEvent
    /\ ctor' = NoRun
    /\ UNCHANGED << build, env, now, tableExists, rows, alarmAt, pc,
                    subscription, sends, atFire, schema, latest, calls,
                    tally >>

\* Time passes.
Tick ==
    /\ now + Step <= MaxNow
    /\ now' = now + Step
    /\ last' = NoEvent
    /\ ctor' = NoRun
    /\ UNCHANGED << build, env, initialized, tableExists, rows, alarmAt, pc,
                    subscription, sends, atFire, schema, latest, calls,
                    tally >>

Next ==
    \/ \E k \in Keys : Construct(k)
    \/ \E s \in Subs : fetchSubscribe(s)
    \/ \E k \in Keys : sayHello(k)
    \/ \E k \in Keys : alarm(k)
    \/ \E k \in Keys, accepted \in BOOLEAN : sendSettled(k, accepted)
    \/ \E k \in Keys, accepted \in BOOLEAN : debugSettled(k, accepted)
    \/ \E k \in Keys : Evict(k)
    \/ Tick

Spec == Init /\ [][Next]_vars

\* Fresh storage, with the calls of setAlarm() and alarm() counted.
InitTally ==
    /\ build \in Builds
    /\ env \in Envs
    /\ now = 0
    /\ initialized = [k \in Keys |-> FALSE]
    /\ tableExists = [k \in Keys |-> FALSE]
    /\ rows = [k \in Keys |-> {}]
    /\ alarmAt = [k \in Keys |-> <<>>]
    /\ pc = [k \in Keys |-> "idle"]
    /\ subscription = [k \in Keys |-> <<>>]
    /\ sends = [k \in Keys |-> 0]
    /\ atFire = [k \in Keys |-> {}]
    /\ last = NoEvent
    /\ schema = [k \in Keys |-> NoTable]
    /\ ctor = NoRun
    /\ latest = [k \in Keys |-> <<>>]
    /\ calls = [k \in Keys |-> <<>>]
    /\ tally = Tally(TRUE)

SpecTally == InitTally /\ [][Next]_vars

\* The storage of an object outlives the Worker's deployments (ensureSchema
\* exists because of the tables an earlier version left), so an activation
\* may find any record table and wake-up time.  InitStored starts the
\* object k1 from such storage.
SubA == PushSub(EndpointA, "p1", "a1")

Stored ==
    { st \in [tableExists : BOOLEAN, rows : {{}, {Rec(SubA)}}, alarmAt : {<<>>, <<0>>}] :
        ~st.tableExists => st.rows = {} }

InitStored ==
    /\ build \in Builds
    /\ env \in Envs
    /\ now = 0
    /\ initialized = [k \in Keys |-> FALSE]
    /\ \E st \in Stored :
        /\ tableExists = [k \in Keys |-> IF k = "k1" THEN st.tableExists ELSE FALSE]
        /\ rows = [k \in Keys |-> IF k = "k1" THEN st.rows ELSE {}]
        /\ alarmAt = [k \in Keys |-> IF k = "k1" THEN st.alarmAt ELSE <<>>]
        /\ schema = [k \in Keys |-> IF k = "k1" /\ st.tableExists
                                     THEN ExpectedTable ELSE NoTable]
    /\ pc = [k \in Keys |-> "idle"]
    /\ subscription = [k \in Keys |-> <<>>]
    /\ sends = [k \in Keys |-> 0]
    /\ atFire = [k \in Keys |-> {}]
    /\ last = NoEvent
    /\ ctor = NoRun
    /\ latest = [k \in Keys |-> <<>>]
    /\ calls = [k \in Keys |-> <<>>]
    /\ tally = Tally(FALSE)

SpecStored == InitStored /\ [][Next]_vars

\* The record tables of earlier layouts that ensureSchema() is written for:
\* any non-empty set of the expected columns, endpoint primary key or not,
\* holding no row, one row, two rows with the same endpoint, or these and a
\* row with another endpoint.
LegacyTables ==
    { sch \in [cols : SUBSET Expected \ {{}}, pk : BOOLEAN, shadow : {FALSE}] :
        sch.pk => "endpoint" \in sch.cols }

LegacyR1 == [endpoint |-> EndpointA, keys_p256dh |-> "p1", keys_auth |-> "a2"]
LegacyR2 == [endpoint |-> EndpointA, keys_p256dh |-> "p2", keys_auth |-> "a1"]
LegacyR3 == [endpoint |-> EndpointB, keys_p256dh |-> "p1", keys_auth |-> "a1"]

LegacyRowSets == { {}, {LegacyR1}, {LegacyR1, LegacyR2}, {LegacyR1, LegacyR2, LegacyR3} }

\* The row r in a table that has the columns cols only.
Project(cols, r) ==
    [endpoint |-> IF "endpoint" \in cols THEN r.endpoint ELSE NoColumn,
     keys_p256dh |-> IF "keys_p256dh" \in cols THEN r.keys_p256dh ELSE NoColumn,
     keys_auth |-> IF "keys_auth" \in cols THEN r.keys_auth ELSE NoColumn]

\* The rows a table of the layout sch can hold: a primary key on endpoint
\* admits one row per endpoint.
LegacyRows(sch) ==
    { rs \in { { Project(sch.cols, r) : r \in base } : base \in LegacyRowSets } :
        sch.pk => \A x, y \in rs : x.endpoint = y.endpoint => x = y }

\* The object k1 starts from a record table of an earlier layout, deployed
\* with the raw SQL source and a complete configuration.
InitLegacy ==
    /\ build = "sql"
    /\ env = [VAPID_PRIVATE_KEY |-> TRUE, GCM_APIKey |-> TRUE]
    /\ now = 0
    /\ initialized = [k \in Keys |-> FALSE]
    /\ \E sch \in LegacyTables : \E rs \in LegacyRows(sch) : \E al \in {<<>>, <<0>>} :
        /\ tableExists = [k \in Keys |-> k = "k1"]
        /\ schema = [k \in Keys |-> IF k = "k1" THEN sch ELSE NoTable]
        /\ rows = [k \in Keys |-> IF k = "k1" THEN rs ELSE {}]
        /\ alarmAt = [k \in Keys |-> IF k = "k1" THEN al ELSE <<>>]
    /\ pc = [k \in Keys |-> "idle"]
    /\ subscription = [k \in Keys |-> <<>>]
    /\ sends = [k \in Keys |-> 0]
    /\ atFire = [k \in Keys |-> {}]
    /\ last = NoEvent
    /\ ctor = NoRun
    /\ latest = [k \in Keys |-> <<>>]
    /\ calls = [k \in Keys |-> <<>>]
    /\ tally = Tally(FALSE)

SpecLegacy == InitLegacy /\ [][Next]_vars

\* ------------------------------------------- register, await by await
\* registerNotification suspends twice: at `await getAlarm()` and at
\* `await setAlarm(alarmTime)`.  SpecGate runs it one piece at a time, with
\* the requests that have arrived at an object kept in calls[k] in the order
\* of their arrival:
\*   at       "queued" | "getAlarm" | "setAlarm" | "done": where the call is;
\*   pending  the earlier calls that had not returned when this one arrived;
\*   found    what getAlarm() answers (the wake-up time when it was called);
\*   readAt   Date.now() when the call compared `currentAlarm <= Date.now()`;
\*   armed    <<>>, or the wake-up time the call passed to setAlarm();
\*   undo     the rows and the wake-up time the call found when it began.
\* A call that a crash ended is at "crashed".
Call(s, pending) ==
    [sub |-> s, at |-> "queued", pending |-> pending, found |-> <<>>,
     readAt |-> 0, armed |-> <<>>, undo |-> [rows |-> {}, alarmAt |-> <<>>]]

\* Mutant of InputGateOpen: events are delivered while a storage operation
\* of the object is in progress.
InputGateOpen_Always(k) == TRUE

\* The input gate of the object named k: the runtime delivers no event to
\* an object while one of its storage operations is in progress.
InputGateOpen(k) ==
    \A i \in 1..Len(calls[k]) : calls[k][i].at \notin {"getAlarm", "setAlarm"}

\* The number of requests that have arrived.
Arrived == Len(calls["k1"]) + Len(calls["k2"])

\* fetch: a POST /subscribe is routed to its object and waits there.
Arrive(s) ==
    LET k == Md5(s.endpoint)
    IN  /\ Arrived < MaxCalls
        /\ calls' = [calls EXCEPT ![k] =
                        Append(@, Call(s, { i \in 1..Len(@) : @[i].at # "done" }))]
        /\ UNCHANGED << build, env, now, initialized, tableExists, rows, alarmAt, pc,
                        subscription, sends, atFire, last, schema, ctor, latest,
                        tally >>

\* registerNotification up to its first await: the record is stored and
\* getAlarm() is called.
RegisterBegin(k, i) ==
    LET tx == StoreRecord(rows[k], calls[k][i].sub)
    IN  /\ initialized[k]
        /\ InputGateOpen(k)
        /\ calls[k][i].at = "queued"
        /\ \A j \in 1..(i - 1) : calls[k][j].at # "queued"
        /\ IF tableExists[k] /\ tx.ok
           THEN /\ rows' = [rows EXCEPT ![k] = tx.rows]
                /\ latest' = [latest EXCEPT ![k] = << Rec(calls[k][i].sub) >>]
                /\ calls' = [calls EXCEPT ![k][i].at = "getAlarm",
                                          ![k][i].found = alarmAt[k],
                                          ![k][i].undo = [rows |-> rows[k],
                                                          alarmAt |-> alarmAt[k]]]
           ELSE /\ calls' = [calls EXCEPT ![k][i].at = "done"]
                /\ UNCHANGED << rows, latest >>
        /\ UNCHANGED << build, env, now, initialized, tableExists, alarmAt, pc,
                        subscription, sends, atFire, last, schema, ctor,
                        tally >>

\* getAlarm() has answered: the alarm rule, and setAlarm() is called or the
\* handler returns.
RegisterRead(k, i) ==
    LET c     == calls[k][i]
        armed == ArmAlarm(c.found, now)
    IN  /\ c.at = "getAlarm"
        /\ IF armed # c.found
           THEN /\ alarmAt' = [alarmAt EXCEPT ![k] = armed]
                /\ tally' = Count(tally, k, "armed")
                /\ calls' = [calls EXCEPT ![k][i].at = "setAlarm",
                                          ![k][i].readAt = now,
                                          ![k][i].armed = armed]
           ELSE /\ calls' = [calls EXCEPT ![k][i].at = "done", ![k][i].readAt = now]
                /\ UNCHANGED << alarmAt, tally >>
        /\ UNCHANGED << build, env, now, initialized, tableExists, rows, pc,
                        subscription, sends, atFire, last, schema, ctor, latest >>

\* setAlarm() has answered: the handler returns.
RegisterWritten(k, i) ==
    /\ calls[k][i].at = "setAlarm"
    /\ calls' = [calls EXCEPT ![k][i].at = "done"]
    /\ UNCHANGED << build, env, now, initialized, tableExists, rows, alarmAt, pc,
                    subscription, sends, atFire, last, schema, ctor, latest,
                    tally >>

NextGate ==
    \/ \E k \in Keys : Construct(k)
    \/ \E s \in Subs : Arrive(s)
    \/ \E k \in Keys : \E i \in 1..Len(calls[k]) : RegisterBegin(k, i)
    \/ \E k \in Keys : \E i \in 1..Len(calls[k]) : RegisterRead(k, i)
    \/ \E k \in Keys : \E i \in 1..Len(calls[k]) : RegisterWritten(k, i)
    \/ Tick

\* register does not read the configuration: one configuration.
InitGate == Init /\ env = [VAPID_PRIVATE_KEY |-> TRUE, GCM_APIKey |-> TRUE]

SpecGate == InitGate /\ [][NextGate]_vars

\* ------------------------------------------------------------- crashes
\* registerNotification writes the record in transactionSync (raw SQL) or
\* in create() (drizzle) and the wake-up time in a later setAlarm(), with
\* `await getAlarm()` in between; no transaction of the code spans both
\* writes.  What of the writes of a handler is durable when the machine
\* stops while the handler is suspended is decided by the storage layer,
\* not by this code, so a crash takes any of the outcomes:
\*   "all"     every write the handler made so far is kept;
\*   "record"  the record is kept, the wake-up time is not;
\*   "none"    the storage is as the handler found it.
CrashOutcomes(c) ==
    IF c.at = "setAlarm" THEN {"all", "record", "none"} ELSE {"all", "none"}

\* The machine that runs the object named k stops while a register call is
\* suspended at an await: the call fails and the object is gone from memory.
Crash(k) ==
    \E i \in 1..Len(calls[k]) : \E outcome \in CrashOutcomes(calls[k][i]) :
        /\ calls[k][i].at \in {"getAlarm", "setAlarm"}
        /\ rows' = [rows EXCEPT ![k] = IF outcome = "none" THEN calls[k][i].undo.rows
                                                           ELSE @]
        /\ alarmAt' = [alarmAt EXCEPT ![k] = IF outcome = "all" THEN @
                                                ELSE calls[k][i].undo.alarmAt]
        /\ latest' = [latest EXCEPT ![k] = IF outcome = "none" THEN <<>> ELSE @]
        /\ calls' = [calls EXCEPT ![k] =
                        [j \in 1..Len(@) |->
                            IF @[j].at \in {"getAlarm", "setAlarm"}
                            THEN [@[j] EXCEPT !.at = "crashed"] ELSE @[j]]]
        /\ initialized' = [initialized EXCEPT ![k] = FALSE]
        /\ last' = NoEvent
        /\ ctor' = NoRun
        /\ UNCHANGED << build, env, now, tableExists, schema, pc, subscription,
                        sends, atFire, tally >>

NextCrash ==
    \/ NextGate
    \/ \E k \in Keys : Crash(k)

SpecCrash == InitGate /\ [][NextCrash]_vars

\* ====================================================================
\* Claims.  `last` is the handler step that ran at the present instant,
\* with the rows and the wake-up time it found (rowsBefore, alarmBefore).
\* ====================================================================
Registered(k) ==
    last.op = "register" /\ last.key = k /\ last.outcome = "returned"

AlarmEnded(k) == last.op = "alarm" /\ last.key = k

\* C1: after register(key, A) and then register(key, B), with no timer
\* firing in between, the store of the key holds exactly one record and it
\* is B's (endpoint, keys_p256dh and keys_auth).
C1_RegisterReplaces ==
    \A k \in Keys :
        Registered(k) /\ last.rowsBefore # {} => rows[k] = {Rec(last.arg[1])}

\* C2: in every reachable state every key stores 0 or 1 records.
C2_AtMostOneRecord == \A k \in Keys : Cardinality(rows[k]) <= 1

\* C3: a register that finds a wake-up time strictly in the future leaves
\* it unchanged: register(A), then register(B) before the timer matures,
\* leaves the one wake-up time the first register set.
C3_FutureAlarmKept ==
    \A k \in Keys :
        Registered(k) /\ last.alarmBefore # <<>> /\ last.alarmBefore[1] > now
            => alarmAt[k] = last.alarmBefore

C3_Witness ==
    /\ Registered("k1")
    /\ last.alarmBefore = << Delay >>
    /\ now > 0 /\ now < Delay
    /\ last.rowsBefore # {} /\ Rec(last.arg[1]) \notin last.rowsBefore
    /\ alarmAt["k1"] = << Delay >>

\* C4: a register that finds no wake-up time, or one that is <= now
\* (matured, not yet fired), sets the wake-up time to now + 10 seconds.
C4_DueAlarmRearmed ==
    \A k \in Keys :
        Registered(k) /\ (last.alarmBefore = <<>> \/ last.alarmBefore[1] <= now)
            => alarmAt[k] = << now + Delay >>

C4_Witness ==
    /\ Registered("k1")
    /\ last.alarmBefore = << now >>
    /\ pc["k1"] = "idle"
    /\ alarmAt["k1"] = << now + Delay >>

\* C5: when the timer fired and the transport accepted the notification for
\* the stored endpoint, the handler ends with the store empty and no
\* wake-up time set.
C5_AcceptedClearsState ==
    \A k \in Keys :
        AlarmEnded(k) /\ last.accepted => rows[k] = {} /\ alarmAt[k] = <<>>

\* C6: when the timer fired and the transport failed, the handler returns
\* normally, the store holds exactly the record it held when the timer
\* fired, and no wake-up time is set.
C6_FailureLeavesRecordNoAlarm ==
    \A k \in Keys :
        AlarmEnded(k) /\ last.error = "WebPushError" /\ ~last.accepted
            => /\ last.outcome = "returned"
               /\ rows[k] = last.rowsBefore
               /\ alarmAt[k] = <<>>

\* C7: a register that arrives while a delivery is in flight is applied
\* only after the handler has completed, so when the success cleanup of
\* alarm() runs the key's storage is what the handler found when the timer
\* fired: the cleanup erases no record and no wake-up time that a register
\* wrote during the delivery.
C7_CleanupSparesLaterRegister ==
    [][ \A k \in Keys :
          pc[k] # "idle" /\ pc'[k] = "idle" /\ rows'[k] = {}
             => rows[k] = atFire[k] /\ alarmAt[k] = <<>> ]_vars

\* C8: an invocation of alarm() that finds a record (here: one whose
\* endpoint is a URL) and the required configuration calls the transport
\* exactly once.
C8_ExactlyOneSend ==
    \A k \in Keys :
        AlarmEnded(k) /\ last.arg # <<>> /\ IsUrl(last.arg[1].endpoint)
          /\ env.VAPID_PRIVATE_KEY /\ env.GCM_APIKey
            => last.sends = 1

\* C9: when the timer fires and VAPID_PRIVATE_KEY is missing, alarm() fails
\* to its caller and the stored record and wake-up time are unchanged.
C9_MissingSecretPropagates ==
    \A k \in Keys :
        AlarmEnded(k) /\ last.arg # <<>> /\ ~env.VAPID_PRIVATE_KEY
            => /\ last.outcome = "threw"
               /\ rows[k] = last.rowsBefore
               /\ alarmAt[k] = last.alarmBefore

\* C10: when the timer fires on a key whose store holds no record, alarm()
\* fails to its caller with the error of the missing subscription, the
\* transport is not called, and the stored rows and wake-up time are
\* unchanged.
NoSubscriptionErrors == {"one(): no rows", "No subscription found in storage."}

C10_NoRecordFails ==
    \A k \in Keys :
        AlarmEnded(k) /\ last.rowsBefore = {}
            => /\ last.outcome = "threw"
               /\ last.error \in NoSubscriptionErrors
               /\ last.sends = 0
               /\ pc[k] = "idle"
               /\ rows[k] = {}
               /\ alarmAt[k] = last.alarmBefore

C10_Witness ==
    /\ AlarmEnded("k1")
    /\ last.rowsBefore = {}
    /\ last.outcome = "threw"
    /\ alarmAt["k1"] = <<0>>

\* --------------------------------------------------- schema migration
\* `ctor` is the constructor run of the step that ran last: the layout and
\* the rows it found (schemaBefore, rowsBefore) and how ensureSchema() ended.
DuplicateEndpoints(rs) ==
    \E x, y \in rs : x # y /\ x.endpoint = y.endpoint /\ x.endpoint # NoColumn

EndpointsOf(rs) == { x.endpoint : x \in rs }

\* C11: on a record table that lacks exactly one of the expected columns
\* and holds rows with duplicate endpoint values, ensureSchema() completes
\* and leaves the expected columns, endpoint as primary key, and exactly
\* one row per distinct prior endpoint.
C11_MigrationDedups ==
    \A k \in Keys :
        /\ ctor.key = k
        /\ Cardinality(Expected \ ctor.schemaBefore.cols) = 1
        /\ DuplicateEndpoints(ctor.rowsBefore)
        => /\ ctor.outcome = "migrated"
           /\ schema[k] = ExpectedTable
           /\ EndpointsOf(rows[k]) = EndpointsOf(ctor.rowsBefore)
           /\ \A x, y \in rows[k] : x.endpoint = y.endpoint => x = y

\* C12: on a record table with zero rows that needs a migration (an
\* expected column missing, or endpoint not the primary key) ensureSchema()
\* completes and leaves an empty table with the expected columns and
\* endpoint as primary key.
C12_EmptyTableMigrates ==
    \A k \in Keys :
        /\ ctor.key = k
        /\ ctor.schemaBefore.cols # {}
        /\ ctor.rowsBefore = {}
        /\ (Expected \ ctor.schemaBefore.cols # {} \/ ~ctor.schemaBefore.pk)
        => /\ ctor.outcome = "migrated"
           /\ schema[k] = ExpectedTable
           /\ rows[k] = {}

\* C13: when a step of the migration fails the migration is rolled back:
\* the record table has its original columns and rows, no shadow table
\* remains, the activation fails (the object is not kept), and the next
\* activation runs the same schema check on the same state.
C13_FailedMigrationRolledBack ==
    \A k \in Keys :
        ctor.key = k /\ ctor.outcome = "threw"
            => /\ schema[k] = ctor.schemaBefore
               /\ ~schema[k].shadow
               /\ rows[k] = ctor.rowsBefore
               /\ ~initialized[k]
               /\ Ran(k, Constructed(k)) = ctor

C13_Witness ==
    /\ ctor.key = "k1"
    /\ ctor.outcome = "threw"
    /\ ctor.rowsBefore # {}
    /\ rows["k1"] = ctor.rowsBefore

\* C14: ensureSchema() on a table that has the expected columns and
\* endpoint as primary key changes neither the layout nor the rows and
\* issues no write; the same holds for a second call in the same activation
\* and for the call of the next activation.
C14_CorrectTableUntouched ==
    \A k \in Keys :
        ctor.key = k /\ ctor.schemaBefore = ExpectedTable
            => /\ ctor.outcome = "ok" /\ ctor.writes = 0
               /\ schema[k] = ExpectedTable /\ rows[k] = ctor.rowsBefore
               /\ \A init \in {initialized[k], FALSE} :
                    LET again == ensureSchema(init, schema[k], rows[k])
                    IN  /\ again.writes = 0
                        /\ again.schema = schema[k]
                        /\ again.rows = rows[k]
                        /\ again.outcome \in {"memo", "ok"}

\* The second of two successive activations: the record was registered in
\* an earlier activation.
C14_Witness ==
    /\ ctor.key = "k1"
    /\ ctor.outcome = "ok"
    /\ latest["k1"] # <<>>
    /\ rows["k1"] = { latest["k1"][1] }
    /\ initialized["k1"]

\* C20: ensureSchema() runs the migration if and only if the record table
\* exists and an expected column is missing or endpoint is not the primary
\* key; a table that does not exist is created empty with the expected
\* layout, without a migration; in every other case no write is issued.
C20_MigratesIffNeeded ==
    \A k \in Keys :
        ctor.key = k =>
            LET exists == ctor.schemaBefore.cols # {}
                wrong  == \/ \E col \in Expected : col \notin ctor.schemaBefore.cols
                          \/ ~ctor.schemaBefore.pk
            IN  /\ ctor.outcome \in {"migrated", "threw"} <=> exists /\ wrong
                /\ ~exists => /\ ctor.outcome = "created"
                              /\ schema[k] = ExpectedTable
                              /\ rows[k] = {}
                /\ exists /\ ~wrong => /\ ctor.outcome = "ok" /\ ctor.writes = 0
                                        /\ schema[k] = ctor.schemaBefore
                                        /\ rows[k] = ctor.rowsBefore

\* The case that only the primary key decides: all expected columns.
C20_Witness ==
    /\ ctor.key = "k1"
    /\ ctor.outcome = "migrated"
    /\ ctor.schemaBefore.cols = Expected
    /\ ~ctor.schemaBefore.pk
    /\ ctor.rowsBefore # {}

\* ------------------------------------------------------ partitioning
\* The object a step is about.
StepKey == IF ctor.key # "" THEN ctor.key ELSE last.key

\* C15: every operation on one key (construction with its migration,
\* register, timer fired with success or failure) leaves the stored rows,
\* the layout and the wake-up time of every other key unchanged, and a
\* register always acts on the key its endpoint hashes to.
C15_KeysIsolated ==
    [][ /\ \A k \in Keys :
            (rows'[k] # rows[k] \/ alarmAt'[k] # alarmAt[k] \/ schema'[k] # schema[k])
                => StepKey' = k
        /\ last'.op = "register" => last'.key = Md5(last'.arg[1].endpoint) ]_vars

C15_Witness ==
    /\ ctor.key = "k1"
    /\ ctor.outcome = "migrated"
    /\ rows["k2"] # {}
    /\ alarmAt["k2"] # <<>>

\* -------------------------------------------------------------- stall
\* A record, no wake-up time, no delivery in flight.
Stalled(k) == rows[k] # {} /\ alarmAt[k] = <<>> /\ pc[k] = "idle"

C18_ReusableAfterCleanup ==
    \A k \in Keys :
        /\ last.op = "register" /\ last.key = k
        /\ last.rowsBefore = {} /\ last.alarmBefore = <<>>
        => /\ last.outcome = "returned"
           /\ rows[k] = { Rec(last.arg[1]) }
           /\ alarmAt[k] # <<>>

\* C19: when the timer fires, alarm() builds its delivery from the record
\* registered last, and it runs for a wake-up time that has matured (the one
\* an earlier register set).  `last` is alarm()'s step up to the call of the
\* transport, or its return before that call.
C19_DeliversLatestRecord ==
    \A k \in Keys :
        /\ last.key = k
        /\ last.op = "alarmStart" \/ (last.op = "alarm" /\ last.sends = 0)
        /\ last.arg # <<>>
        /\ latest[k] # <<>>
        => /\ last.arg = latest[k]
           /\ last.alarmBefore # <<>> /\ last.alarmBefore[1] <= now

\* --------------------------------------------------------------- race
\* C17: two register calls on one key whose executions overlap (the second
\* arrived before the first returned), the first finding no timer pending
\* and the second comparing the clock before that first wake-up time has
\* matured: only the first calls setAlarm(), and while the later calls are so
\* the wake-up time stays the one the first computed.
C17_RegisterRaceFree ==
    \A k \in Keys :
        \A i, j \in 1..Len(calls[k]) :
            /\ i < j
            /\ i \in calls[k][j].pending
            /\ calls[k][i].found = <<>>
            /\ calls[k][i].armed # <<>>
            /\ calls[k][j].at = "done"
            /\ calls[k][j].readAt < calls[k][i].armed[1]
            => /\ calls[k][j].armed = <<>>
               /\ (\A m \in 1..Len(calls[k]) :
                      calls[k][m].at = "done"
                      /\ calls[k][m].readAt < calls[k][i].armed[1])
                    => alarmAt[k] = calls[k][i].armed

C17_Witness ==
    /\ Len(calls["k1"]) = 2
    /\ calls["k1"][2].pending = {1}
    /\ calls["k1"][1].at = "done" /\ calls["k1"][2].at = "done"
    /\ calls["k1"][1].sub # calls["k1"][2].sub
    /\ calls["k1"][1].found = <<>>
    /\ calls["k1"][2].readAt > calls["k1"][1].readAt
    /\ calls["k1"][2].readAt < calls["k1"][1].armed[1]
    /\ calls["k1"][2].armed = <<>>
    /\ alarmAt["k1"] = calls["k1"][1].armed

\* ---------------------------------------------------------- invariants
\* C21: a key that has a wake-up time pending has a stored record, so no
\* run of registers and timer fires from fresh storage makes alarm() fail on
\* its read of the record.
C21_AlarmHasRecord ==
    \A k \in Keys :
        /\ alarmAt[k] # <<>> => rows[k] # {} /\ tableExists[k]
        /\ ~(AlarmEnded(k) /\ last.outcome = "threw")

\* The timer fires at the second wake-up time of a key (set by a register
\* ten seconds after the first one was set) and alarm() reads a record.
C21_Witness ==
    /\ last.op = "alarmStart" /\ last.key = "k1"
    /\ last.alarmBefore = << Delay + Delay >>
    /\ last.arg # <<>>
    /\ now = Delay + Delay

\* C22: between operations a key that has a stored record has a wake-up
\* time, unless a delivery attempt failed: every register that completes
\* leaves a wake-up time set, and a crash between the record commit and the
\* wake-up write of register leaves no record without a wake-up time.  (No
\* timer fires under SpecCrash, so no delivery fails.)
C22_RecordHasAlarm ==
    \A k \in Keys :
        InputGateOpen(k) /\ rows[k] # {} => alarmAt[k] # <<>>

\* ------------------------------------------------------------- timing
\* C24: a pending wake-up time is at most now + 10 seconds, and right after
\* a register has completed the wake-up time of its key is set and later
\* than the time at which the register read the clock.
C24_AlarmWithinDelay ==
    \A k \in Keys :
        /\ alarmAt[k] # <<>> => alarmAt[k][1] <= now + Delay
        /\ Registered(k) => alarmAt[k] # <<>> /\ alarmAt[k][1] > now

\* A register that kept a wake-up time less than 10 seconds away.
C24_Witness ==
    /\ Registered("k2")
    /\ last.alarmBefore = alarmAt["k2"]
    /\ alarmAt["k2"][1] > now
    /\ alarmAt["k2"][1] < now + Delay

\* C25: alarm() was called on a key at most as often as register called
\* setAlarm() on it; registers that all arrive before the first wake-up
\* time can have matured make one setAlarm() call, hence one delivery
\* attempt, not one per register.
C25_FiresAtMostArmed ==
    \A k \in Keys :
        /\ tally[k].fired <= tally[k].armed
        /\ now < Delay => tally[k].armed <= 1 /\ tally[k].fired = 0

\* The one timer fire after two registers (two records, drizzle).
C25_Witness ==
    /\ last.op = "alarmStart" /\ last.key = "k1"
    /\ Cardinality(last.rowsBefore) = 2
    /\ tally["k1"].armed = 1
    /\ tally["k1"].fired = 1

\* ----------------------------------------------------------- liveness
\* The runtime's scheduling: time passes, an evicted object is constructed
\* again for its next event, a push request settles, and a wake-up time
\* that is matured again and again is fired (strong fairness: a register
\* that re-arms a matured wake-up time disables the fire for a while).
Fairness ==
    /\ WF_vars(Tick)
    /\ \A k \in Keys :
        /\ WF_vars(Construct(k))
        /\ SF_vars(alarm(k))
        /\ WF_vars(\E accepted \in BOOLEAN : sendSettled(k, accepted))
        /\ WF_vars(\E accepted \in BOOLEAN : debugSettled(k, accepted))

SpecFair == Init /\ [][Next]_vars /\ Fairness

\* alarm() has just been called on k: it has reached its first push request
\* or has ended before it (an end after a push request counts one or two
\* of them in `sends`).
AlarmStarted(k) ==
    /\ last.key = k
    /\ \/ last.op = "alarmStart"
       \/ last.op = "alarm" /\ last.sends = 0

\* The wake-up time of k lies beyond the last instant of the clock.
BeyondHorizon(k) == alarmAt[k] # <<>> /\ alarmAt[k][1] > MaxNow

\* C23: a completed register on a key is eventually followed by a call of
\* alarm() on that key, or by a wake-up time beyond the last instant of
\* the clock (where the bounded clock cannot show the fire).
C23_RegisterLeadsToAttempt ==
    \A k \in Keys :
        (Registered(k) /\ ~BeyondHorizon(k)) ~> (AlarmStarted(k) \/ BeyondHorizon(k))

====
